---- MODULE Spec2Model ----
(***************************************************************************)
(* State-machine model of do_mpc.controller.MPC (src/do_mpc/controller.py): *)
(* the configuration calls, setup, set_initial_guess and make_step, with    *)
(* the numeric decision vector opt_x_num, the parameter vector opt_p_num    *)
(* and the bound arrays laid out as the code lays them out.                 *)
(*                                                                         *)
(* Every API call is one action.  A call that raises leaves the state as    *)
(* the code leaves it at the raise and records the exception in lastCall.   *)
(* Vectors are functions from power indices (tuples) to integers; an        *)
(* attribute that is None is the empty function.                            *)
(***************************************************************************)
EXTENDS Integers, Sequences, FiniteSets, TLC

VARIABLES
    model,          \* the do_mpc model the controller was built for
    scaling,        \* _x_scaling, _u_scaling, _z_scaling
    flags,          \* self.flags
    param,          \* the attributes listed in self.data_fields
    cost,           \* self.mterm, self.lterm
    rterm_factor,   \* self.rterm_factor
    tvp_fun,        \* self.tvp_fun
    p_fun,          \* self.p_fun
    n_combinations, \* self.n_combinations
    bnd,            \* _x_lb/_x_ub, _u_lb/_u_ub, _z_lb/_z_ub
    terminal,       \* _x_terminal_lb, _x_terminal_ub
    _t0, _x0, _u0, _z0,     \* the iterated variables
    opt_x_num,      \* self._opt_x_num
    opt_p_num,      \* self._opt_p_num
    lb_opt_x, ub_opt_x,     \* self._lb_opt_x, self._ub_opt_x
    nl_cons,        \* the nonlinear constraints added with set_nl_cons
    scenario_tree,  \* self.scenario_tree
    nlp,            \* self._nlp_obj, self._nlp_cons, _nlp_cons_lb, _nlp_cons_ub
    terminal_assigned,  \* the values most recently assigned through terminal_bounds
    solver_stats,   \* self.solver_stats
    data,           \* self.data
    S_call,         \* arguments of the most recent call of the solver self.S
    lastCall        \* outcome of the most recent API call

vars == <<model, scaling, flags, param, cost, rterm_factor, tvp_fun, p_fun,
          n_combinations, bnd, terminal, _t0, _x0, _u0, _z0, opt_x_num,
          opt_p_num, lb_opt_x, ub_opt_x, nl_cons,
          scenario_tree, nlp, terminal_assigned, solver_stats, data, S_call, lastCall>>

\* Everything a call can change, lastCall excepted.
state == <<model, scaling, flags, param, cost, rterm_factor, tvp_fun, p_fun,
           n_combinations, bnd, terminal, _t0, _x0, _u0, _z0, opt_x_num,
           opt_p_num, lb_opt_x, ub_opt_x, nl_cons,
          scenario_tree, nlp, terminal_assigned, solver_stats, data, S_call>>

\* What set_param, set_objective and set_rterm configure.
configuration == <<param, cost, rterm_factor, flags>>

\* The decision vector, the parameter vector, the clock and what make_step stores.
runtime == <<_t0, _x0, _u0, _z0, opt_x_num, opt_p_num, solver_stats, data, S_call>>

-----------------------------------------------------------------------------
(* Bounds of the model. *)

\* make_step is called at most MaxSteps times in a behaviour.
MaxSteps == 2

(* Encodings. *)

\* An attribute that was never assigned (None, or absent from __dict__).
Unset == 0 - 1
\* np.inf
Inf == 99
\* None for a vector-valued attribute.
NoVec == <<>>
\* No nonlinear constraint: an empty list of constraints and an empty slack.
NoNlCons == [n |-> 0, soft |-> FALSE]
\* The scenario tree and the problem before the first setup: not yet attributes.
NoTree == <<>>
NoNlp == [obj |-> {}, cons |-> {}]

-----------------------------------------------------------------------------
(* The models the controller is built for, and the scaling the user chose. *)

Models ==
    { [model_type |-> "discrete",   n_x |-> 1, n_tvp |-> 0, n_p |-> 1],
      [model_type |-> "continuous", n_x |-> 1, n_tvp |-> 1, n_p |-> 1] }

\* The scaling factor the user chose for the states and inputs of each model.
ScalingOf(m) == IF m.model_type = "discrete" THEN 1 ELSE 2

\* Names of the inputs of the model (model._u.keys()).
InputNames == {"u"}

RECURSIVE Pow(_, _)
Pow(a, b) == IF b = 0 THEN 1 ELSE a * Pow(a, b - 1)

Max(a, b) == IF a >= b THEN a ELSE b
Min(a, b) == IF a <= b THEN a ELSE b

-----------------------------------------------------------------------------
(* Layout of the decision vector and of the parameter vector. *)

\* Number of collocation points per control interval besides the interval's
\* end point: none for a discrete-time model.
n_total_coll_points(m, prm) ==
    IF m.model_type = "discrete" THEN 0
    ELSE prm.collocation_deg * prm.collocation_ni

\* n_max_scenarios counted at the beginning of the last control interval.
n_max_scenarios_last_interval(nc, prm) ==
    Pow(nc, Min(prm.n_robust, prm.n_horizon - 1))

\* Width of the scenario axis of opt_x.
n_max_scenarios(nc, prm) == Pow(nc, prm.n_robust)

n_u_scenarios(nc, prm) == IF prm.open_loop THEN 1 ELSE n_max_scenarios(nc, prm)

n_eps(prm) == IF prm.nl_cons_single_slack THEN 1 ELSE prm.n_horizon

\* Power indices of opt_x: _x[k, s, c], _z[k, s, c], _u[k, s], _eps[k, s].
OptXIndex(m, nc, prm) ==
    LET ncp == n_total_coll_points(m, prm)
        S   == 0 .. (n_max_scenarios(nc, prm) - 1)
    IN  { <<"_x", k, s, c>> : k \in 0 .. prm.n_horizon, s \in S, c \in 0 .. ncp }
        \cup { <<"_z", k, s, c>> : k \in 0 .. (prm.n_horizon - 1), s \in S,
                                   c \in 0 .. (Max(ncp, 1) - 1) }
        \cup { <<"_u", k, s>> : k \in 0 .. (prm.n_horizon - 1),
                                s \in 0 .. (n_u_scenarios(nc, prm) - 1) }
        \cup { <<"_eps", k, s>> : k \in 0 .. (n_eps(prm) - 1), s \in S }

\* Power indices of opt_p: _x0, _tvp[k], _p[c], _u_prev.
OptPIndex(nc, prm) ==
    { <<"_x0">>, <<"_u_prev">> }
        \cup { <<"_tvp", k>> : k \in 0 .. prm.n_horizon }
        \cup { <<"_p", c>> : c \in 0 .. (nc - 1) }

\* struct(v): the numeric structure with every entry set to v.
Filled(index, v) == [i \in index |-> v]

\* The last collocation point (index -1) of the _x entries of a vector.
LastPoint(vec) ==
    LET cs == { i[4] : i \in { j \in DOMAIN vec : j[1] = "_x" } }
    IN  CHOOSE c \in cs : \A d \in cs : d <= c

-----------------------------------------------------------------------------
(* The scenario tree. *)

\* Children per node of stage k: n_combinations inside the robust horizon.
n_branches(nc, prm, k) == IF k < prm.n_robust THEN nc ELSE 1

\* Nodes of stage k.
n_scenarios(nc, prm, k) == Pow(nc, Min(k, prm.n_robust))

\* The tree: for every stage the number of branches and of scenarios, the
\* children of every node in the order of the combinations, the parent of
\* every node and the offset of the node's branches into the combinations.
_setup_scenario_tree(nc, prm) ==
    LET N     == prm.n_horizon
        nb(k) == n_branches(nc, prm, k)
        ns(k) == n_scenarios(nc, prm, k)
    IN  [ n_branches  |-> [k \in 0 .. (N - 1) |-> nb(k)],
          n_scenarios |-> [k \in 0 .. N |-> ns(k)],
          child_scenario |->
              [k \in 0 .. (N - 1) |->
                  [s \in 0 .. (ns(k) - 1) |->
                      [b \in 0 .. (nb(k) - 1) |-> s * nb(k) + b]]],
          parent_scenario |->
              [k \in 1 .. N |-> [c \in 0 .. (ns(k) - 1) |-> c \div nb(k - 1)]],
          branch_offset |->
              [k \in 0 .. (N - 1) |->
                  [s \in 0 .. (ns(k) - 1) |->
                      IF k < prm.n_robust THEN 0 ELSE s % nc]] ]

-----------------------------------------------------------------------------
(* Assembly of the objective and of the constraints.  A term of the objective
   and a block of constraints are recorded with the loop iteration (k, s, b)
   that added them and with the entries of opt_x and opt_p they are built
   from.  The weight of a term is 1/den. *)

\* The iterations of the three nested loops.
Branches(t, prm) ==
    UNION { UNION { { <<k, s, b>> : b \in 0 .. (t.n_branches[k] - 1) } :
                    s \in 0 .. (t.n_scenarios[k] - 1) } :
            k \in 0 .. (prm.n_horizon - 1) }

\* Scenario index of the input: always 0 under open_loop.
s_u(prm, s) == IF prm.open_loop THEN 0 ELSE s

\* current_scenario advancing with the stage.
current_scenario_by_stage(t, br) == br[3] + br[1]

\* Index of the uncertain parameters of branch br.
current_scenario(t, br) == br[3] + t.branch_offset[br[1]][br[2]]

\* Index -1 of the collocation axis of _x and of _z.
XLast(m, prm) == n_total_coll_points(m, prm)
ZLast(m, prm) == Max(n_total_coll_points(m, prm), 1) - 1

\* omega taken from the stage the branches leave.
omega_parent_stage(t, k) == t.n_scenarios[k]

\* omega[k] and omega_delta_u[k], as denominators.
omega(t, k) == t.n_scenarios[k + 1]

\* The slack handed to the constraint and to its penalty: an empty structure
\* unless a soft constraint was defined.
EpsVars(nlc, prm, br) ==
    IF nlc.soft THEN { <<"_eps", Min(br[1], n_eps(prm) - 1), br[2]>> } ELSE {}

Term(kind, br, den, xs, ref, ps) ==
    [kind |-> kind, k |-> br[1], s |-> br[2], b |-> br[3], den |-> den,
     vars |-> xs, ref |-> ref, pars |-> ps]

Con(kind, br, i, rows, xs, ps, lb, ub) ==
    [kind |-> kind, k |-> br[1], s |-> br[2], b |-> br[3], i |-> i,
     rows |-> rows, vars |-> xs, pars |-> ps, lb |-> lb, ub |-> ub]

\* The arguments of the integrator for branch br.
IfcnVars(m, prm, t, br) ==
    LET k == br[1]
        c == t.child_scenario[k][br[2]][br[3]]
    IN  { <<"_x", k, br[2], XLast(m, prm)>>, <<"_u", k, s_u(prm, br[2])>> }
        \cup { <<"_x", k + 1, c, j>> : j \in 0 .. (XLast(m, prm) - 1) }
        \cup { <<"_z", k, c, j>> : j \in 0 .. ZLast(m, prm) }

BranchPars(t, br) == { <<"_tvp", br[1]>>, <<"_p", current_scenario(t, br)>> }

\* Rows of the collocation block: the defects at the collocation points and
\* the algebraic equations.
DefectRows(m, prm) ==
    n_total_coll_points(m, prm) * m.n_x + Max(n_total_coll_points(m, prm), 1)

\* InitialCondition on the first point of the collocation axis.
InitialCondition_first_point(m, prm) ==
    Con("initial", <<0, 0, 0>>, 0, m.n_x, { <<"_x", 0, 0, 0>> }, { <<"_x0">> }, 0, 0)

\* The initial condition.
InitialCondition(m, prm) ==
    Con("initial", <<0, 0, 0>>, 0, m.n_x, { <<"_x", 0, 0, XLast(m, prm)>> },
        { <<"_x0">> }, 0, 0)

\* The collocation equations of branch br.
CollocationCons(m, prm, t, br) ==
    Con("collocation", br, 0, DefectRows(m, prm), IfcnVars(m, prm, t, br),
        BranchPars(t, br), 0, 0)

\* The continuity constraint of branch br.
ContinuityCons(m, prm, t, br) ==
    Con("continuity", br, 0, m.n_x,
        IfcnVars(m, prm, t, br)
            \cup { <<"_x", br[1] + 1, t.child_scenario[br[1]][br[2]][br[3]],
                     XLast(m, prm)>> },
        BranchPars(t, br), 0, 0)

\* The nonlinear constraints of branch br: at every collocation point, or at
\* the beginning of the interval.
NlCons(m, prm, t, nlc, br) ==
    LET k == br[1]
        s == br[2]
        at(ix, iz) ==
            IF nlc.n = 0 THEN {}
            ELSE { <<"_x", k, s, ix>>, <<"_u", k, s_u(prm, s)>>, <<"_z", k, s, iz>> }
                 \cup EpsVars(nlc, prm, br)
    IN  IF prm.nl_cons_check_colloc_points
        THEN { Con("nl_cons", br, i, nlc.n, at(i, i), BranchPars(t, br), 0 - Inf, 0) :
                 i \in 0 .. (n_total_coll_points(m, prm) - 1) }
        ELSE { Con("nl_cons", br, 0, nlc.n, at(XLast(m, prm), 0), BranchPars(t, br),
                   0 - Inf, 0) }

\* LtermTerm evaluated at the scenario index of the child.
LtermTerm_child_index(m, prm, t, br) ==
    Term("lterm", br, omega(t, br[1]),
         { <<"_x", br[1], t.child_scenario[br[1]][br[2]][br[3]], XLast(m, prm)>>,
           <<"_u", br[1], s_u(prm, br[2])>>,
           <<"_z", br[1], br[2], ZLast(m, prm)>> },
         <<>>, BranchPars(t, br))

\* The stage cost of branch br.
LtermTerm(m, prm, t, br) ==
    Term("lterm", br, omega(t, br[1]),
         { <<"_x", br[1], br[2], XLast(m, prm)>>, <<"_u", br[1], s_u(prm, br[2])>>,
           <<"_z", br[1], br[2], ZLast(m, prm)>> },
         <<>>, BranchPars(t, br))

\* The penalty of the slack of branch br.
EpsTerm(prm, nlc, br) == Term("epsterm", br, 1, EpsVars(nlc, prm, br), <<>>, {})

\* The terminal cost, added in the last control interval.
MtermTerm(m, prm, t, br) ==
    IF br[1] = prm.n_horizon - 1
    THEN { Term("mterm", br, omega(t, br[1]),
                { <<"_x", br[1] + 1, br[2], XLast(m, prm)>> }, <<>>,
                { <<"_tvp", br[1] + 1>>, <<"_p", current_scenario(t, br)>> }) }
    ELSE {}

\* RtermTerm against the input with the node's own scenario index.
RtermTerm_own_index(prm, t, br) ==
    LET k  == br[1]
        su == s_u(prm, br[2])
    IN  IF k = 0
        THEN Term("rterm", br, 1, { <<"_u", 0, su>> }, <<"_u_prev">>, { <<"_u_prev">> })
        ELSE Term("rterm", br, 1, { <<"_u", k, su>>, <<"_u", k - 1, su>> },
                  <<"_u", k - 1, su>>, {})

\* The penalty of the change of the input: against u_prev in the first
\* interval, against the input of the parent node afterwards.
RtermTerm(prm, t, br) ==
    LET k  == br[1]
        su == s_u(prm, br[2])
    IN  IF k = 0
        THEN Term("rterm", br, 1, { <<"_u", 0, su>> }, <<"_u_prev">>, { <<"_u_prev">> })
        ELSE Term("rterm", br, 1,
                  { <<"_u", k, su>>, <<"_u", k - 1, t.parent_scenario[k][su]>> },
                  <<"_u", k - 1, t.parent_scenario[k][su]>>, {})

\* self._nlp_obj and self._nlp_cons with their bounds.
AssembleNlp(m, prm, t, nlc) ==
    [ obj  |-> UNION { { LtermTerm(m, prm, t, br), EpsTerm(prm, nlc, br),
                         RtermTerm(prm, t, br) } \cup MtermTerm(m, prm, t, br) :
                       br \in Branches(t, prm) },
      cons |-> { InitialCondition(m, prm) }
               \cup UNION { { CollocationCons(m, prm, t, br),
                              ContinuityCons(m, prm, t, br) }
                            \cup NlCons(m, prm, t, nlc, br) :
                            br \in Branches(t, prm) } ]

-----------------------------------------------------------------------------
(* Bounds. *)

x_terminal_lb == IF terminal.lb_alias THEN bnd["_x"].lb ELSE terminal.lb
x_terminal_ub == IF terminal.ub_alias THEN bnd["_x"].ub ELSE terminal.ub

\* PathBounded with the state bounds applied from stage 0 on.
PathBounded_from_stage_0(i, prm, last) ==
    CASE i[1] = "_x" ->
            /\ 0 <= i[2] /\ i[2] <= prm.n_horizon - 1
            /\ (prm.cons_check_colloc_points \/ i[4] = last)
      [] i[1] = "_z" -> prm.cons_check_colloc_points \/ i[4] = 0
      [] OTHER -> FALSE

\* Whether _update_bounds assigns the path bound of class i[1] to entry i.
PathBounded(i, prm, last) ==
    CASE i[1] = "_x" ->
            /\ 1 <= i[2] /\ i[2] <= prm.n_horizon - 1
            /\ (prm.cons_check_colloc_points \/ i[4] = last)
      [] i[1] = "_z" -> prm.cons_check_colloc_points \/ i[4] = 0
      [] OTHER -> FALSE

\* Whether _update_bounds assigns the terminal bound to entry i.
TerminalBounded(i, prm, last) ==
    i[1] = "_x" /\ i[2] = prm.n_horizon /\ i[4] = last

\* _update_bounds adding the bounds to the entries of the arrays.
_update_bounds_accumulating(old, which, b, xterm, prm) ==
    LET last == LastPoint(old)
    IN  [i \in DOMAIN old |->
            IF TerminalBounded(i, prm, last) THEN xterm
            ELSE IF PathBounded(i, prm, last)
                 THEN Max(0 - Inf, Min(Inf, old[i] + b[i[1]][which]))
            ELSE IF i[1] = "_u" THEN b["_u"][which]
            ELSE IF i[1] = "_eps" THEN (IF which = "lb" THEN 0 ELSE Inf)
            ELSE old[i]]

\* One of the two bound arrays after _update_bounds; which is "lb" or "ub".
\* The slack variables are bounded below by 0.
_update_bounds(old, which, b, xterm, prm) ==
    LET last == LastPoint(old)
    IN  [i \in DOMAIN old |->
            IF TerminalBounded(i, prm, last) THEN xterm
            ELSE IF PathBounded(i, prm, last) THEN b[i[1]][which]
            ELSE IF i[1] = "_u" THEN b["_u"][which]
            ELSE IF i[1] = "_eps" THEN (IF which = "lb" THEN 0 ELSE Inf)
            ELSE old[i]]

-----------------------------------------------------------------------------
(* The state after MPC.__init__. *)

\* self.data_fields, as far as the attributes shape the problem.
data_fields ==
    { "n_horizon", "n_robust", "open_loop", "t_step", "use_terminal_bounds",
      "collocation_deg", "collocation_ni", "nl_cons_check_colloc_points",
      "nl_cons_single_slack", "cons_check_colloc_points" }

\* The default parameters; n_horizon and t_step have none.
DefaultParam ==
    [ n_horizon |-> Unset, t_step |-> Unset, n_robust |-> 0, open_loop |-> FALSE,
      use_terminal_bounds |-> TRUE, collocation_deg |-> 2, collocation_ni |-> 1,
      nl_cons_check_colloc_points |-> FALSE, nl_cons_single_slack |-> FALSE,
      cons_check_colloc_points |-> TRUE ]

InitFlags ==
    [ setup |-> FALSE, prepare_nlp |-> FALSE,
      set_objective |-> FALSE, set_rterm |-> FALSE, set_tvp_fun |-> FALSE,
      set_p_fun |-> FALSE, set_initial_guess |-> FALSE ]

\* The record of an API call: the exception it raised ("ok" if none), the
\* warnings it issued and the value it returned (Unset for None).  The argument
\* is recorded for make_step alone.
CallWith(op, args, status, warn, ret) ==
    [op |-> op, args |-> args, status |-> status, warn |-> warn, ret |-> ret]

Call(op, status, warn, ret) == CallWith(op, <<>>, status, warn, ret)

Init ==
    /\ model \in Models
    /\ scaling = ScalingOf(model)
    /\ flags = InitFlags
    /\ param = DefaultParam
    /\ cost = [mterm |-> "unset", lterm |-> "unset"]
    /\ rterm_factor = [n \in InputNames |-> 0]
    /\ tvp_fun = "unset"
    /\ p_fun = [kind |-> "unset", n |-> 0]
    /\ n_combinations = Unset
    /\ bnd = [c \in {"_x", "_u", "_z"} |-> [lb |-> 0 - Inf, ub |-> Inf]]
    /\ terminal = [lb |-> 0 - Inf, ub |-> Inf, lb_alias |-> FALSE, ub_alias |-> FALSE]
    /\ _t0 = 0 /\ _x0 = 0 /\ _u0 = 0 /\ _z0 = 0
    /\ opt_x_num = NoVec
    /\ opt_p_num = NoVec
    /\ lb_opt_x = NoVec
    /\ ub_opt_x = NoVec
    /\ nl_cons = NoNlCons
    /\ scenario_tree = NoTree
    /\ nlp = NoNlp
    /\ terminal_assigned = [lb |-> Unset, ub |-> Unset]
    /\ solver_stats = {}
    /\ data = [n |-> 0, last |-> <<>>]
    /\ S_call = [n |-> 0, x0 |-> NoVec, p |-> NoVec]
    /\ lastCall = Call("__init__", "ok", {}, Unset)

-----------------------------------------------------------------------------
(* set_param *)

\* The keyword arguments the model passes to set_param.
ParamInputs ==
    { [n_horizon |-> 2, t_step |-> 2],
      [n_robust |-> 1, open_loop |-> TRUE],
      [nonexistent_key |-> 0] }

\* setattr for every keyword that is a data field; the others are skipped.
SetAttrs(prm, kwargs) ==
    [k \in DOMAIN prm |->
        IF k \in DOMAIN kwargs /\ k \in data_fields THEN kwargs[k] ELSE prm[k]]

\* set_param without its assertion on the setup flag.
set_param_unchecked(kwargs) ==
    /\ param' = SetAttrs(param, kwargs)
    /\ lastCall' = Call("set_param", "ok",
           IF DOMAIN kwargs \subseteq data_fields THEN {} ELSE {"unknown key"}, Unset)
    /\ UNCHANGED <<model, scaling, flags, cost, rterm_factor, tvp_fun, p_fun,
                   n_combinations, bnd, terminal, lb_opt_x, ub_opt_x,
                   nl_cons, scenario_tree, nlp, terminal_assigned>>
    /\ UNCHANGED runtime

set_param(kwargs) ==
    IF flags.setup # FALSE
    THEN /\ lastCall' = Call("set_param", "AssertionError", {}, Unset)
         /\ UNCHANGED state
    ELSE /\ param' = SetAttrs(param, kwargs)
         /\ lastCall' = Call("set_param", "ok",
                IF DOMAIN kwargs \subseteq data_fields THEN {} ELSE {"unknown key"},
                Unset)
         /\ UNCHANGED <<model, scaling, flags, cost, rterm_factor, tvp_fun, p_fun,
                        n_combinations, bnd, terminal, lb_opt_x, ub_opt_x,
                        nl_cons, scenario_tree, nlp, terminal_assigned>>
         /\ UNCHANGED runtime

SetParam == \E kwargs \in ParamInputs : set_param(kwargs)

-----------------------------------------------------------------------------
(* set_objective *)

\* Cost expressions: two scalar ones for each term, and one of shape (2,1).
ObjectiveInputs == { <<"m1", "l1">>, <<"m2", "l2">>, <<"vector", "l1">>, <<"m1", "vector">> }

IsScalar(term) == term # "vector"

set_objective(mterm, lterm) ==
    IF ~IsScalar(mterm) \/ ~IsScalar(lterm) \/ flags.setup # FALSE
    THEN /\ lastCall' = Call("set_objective", "AssertionError", {}, Unset)
         /\ UNCHANGED state
    ELSE /\ cost' = [mterm |-> mterm, lterm |-> lterm]
         /\ flags' = [flags EXCEPT !.set_objective = TRUE]
         /\ lastCall' = Call("set_objective", "ok", {}, Unset)
         /\ UNCHANGED <<model, scaling, param, rterm_factor, tvp_fun, p_fun,
                        n_combinations, bnd, terminal, lb_opt_x, ub_opt_x,
                        nl_cons, scenario_tree, nlp, terminal_assigned>>
         /\ UNCHANGED runtime

SetObjective == \E a \in ObjectiveInputs : set_objective(a[1], a[2])

-----------------------------------------------------------------------------
(* set_rterm *)

\* Keyword arguments of set_rterm, in call order: <<name, type of value, value>>.
RtermInputs ==
    { << <<"u", "int", 1>> >>,
      << <<"no_input", "int", 1>> >>,
      << <<"u", "str", 0>> >>,
      << <<"u", "int", 1>>, <<"no_input", "int", 1>> >> }

\* The loop over kwargs.items(): the weights when the loop ends or raises, and
\* whether it raised.
RECURSIVE RtermLoop(_, _)
RtermLoop(kwargs, rf) ==
    IF kwargs = <<>> THEN [rf |-> rf, raised |-> FALSE]
    ELSE LET key == Head(kwargs)[1]
             typ == Head(kwargs)[2]
             val == Head(kwargs)[3]
         IN  IF key \notin InputNames \/ typ \notin {"int", "float", "ndarray"}
             THEN [rf |-> rf, raised |-> TRUE]
             ELSE RtermLoop(Tail(kwargs), [rf EXCEPT ![key] = val])

set_rterm(kwargs) ==
    IF flags.setup # FALSE
    THEN /\ lastCall' = Call("set_rterm", "AssertionError", {}, Unset)
         /\ UNCHANGED state
    ELSE LET r == RtermLoop(kwargs, rterm_factor)
         IN  /\ flags' = [flags EXCEPT !.set_rterm = TRUE]
             /\ rterm_factor' = r.rf
             /\ lastCall' = Call("set_rterm",
                    IF r.raised THEN "AssertionError" ELSE "ok", {}, Unset)
             /\ UNCHANGED <<model, scaling, param, cost, tvp_fun, p_fun,
                            n_combinations, bnd, terminal, lb_opt_x, ub_opt_x,
                            nl_cons, scenario_tree, nlp, terminal_assigned>>
             /\ UNCHANGED runtime

SetRterm == \E kwargs \in RtermInputs : set_rterm(kwargs)

-----------------------------------------------------------------------------
(* The parameter functions: get_p_template, set_p_fun, set_tvp_fun. *)

\* The numbers of combinations the model passes to get_p_template, and the
\* numbers of combinations in the structures the registered p_fun returns.
CombinationInputs == {2}

get_p_template(n) ==
    /\ n_combinations' = n
    /\ lastCall' = Call("get_p_template", "ok", {}, Unset)
    /\ UNCHANGED <<model, scaling, flags, param, cost, rterm_factor, tvp_fun, p_fun,
                   bnd, terminal, lb_opt_x, ub_opt_x,
                   nl_cons, scenario_tree, nlp, terminal_assigned>>
    /\ UNCHANGED runtime

GetPTemplate == \E n \in CombinationInputs : get_p_template(n)

\* labels() of a structure of n repetitions of model._p.
PLabels(n) == { <<"_p", c, j>> : c \in 0 .. (n - 1), j \in 0 .. (model.n_p - 1) }

\* set_p_fun for a p_fun returning a structure of n combinations.
set_p_fun(n) ==
    IF n_combinations = Unset
    THEN /\ lastCall' = Call("set_p_fun", "AttributeError", {}, Unset)
         /\ UNCHANGED state
    ELSE IF PLabels(n_combinations) # PLabels(n)
    THEN /\ lastCall' = Call("set_p_fun", "AssertionError", {}, Unset)
         /\ UNCHANGED state
    ELSE /\ flags' = [flags EXCEPT !.set_p_fun = TRUE]
         /\ p_fun' = [kind |-> "user", n |-> n]
         /\ lastCall' = Call("set_p_fun", "ok", {}, Unset)
         /\ UNCHANGED <<model, scaling, param, cost, rterm_factor, tvp_fun,
                        n_combinations, bnd, terminal, lb_opt_x, ub_opt_x,
                        nl_cons, scenario_tree, nlp, terminal_assigned>>
         /\ UNCHANGED runtime

SetPFun == \E n \in CombinationInputs : set_p_fun(n)

\* Optimizer.set_tvp_fun: the function's output is compared with the template,
\* which has n_horizon+1 entries.
set_tvp_fun ==
    IF param.n_horizon = Unset
    THEN /\ lastCall' = Call("set_tvp_fun", "AttributeError", {}, Unset)
         /\ UNCHANGED state
    ELSE /\ flags' = [flags EXCEPT !.set_tvp_fun = TRUE]
         /\ tvp_fun' = "user"
         /\ lastCall' = Call("set_tvp_fun", "ok", {}, Unset)
         /\ UNCHANGED <<model, scaling, param, cost, rterm_factor, p_fun,
                        n_combinations, bnd, terminal, lb_opt_x, ub_opt_x,
                        nl_cons, scenario_tree, nlp, terminal_assigned>>
         /\ UNCHANGED runtime

\* tvp_fun(t)['_tvp', k] and p_fun(t)['_p', c] of the registered functions.  The
\* functions the user registers depend on the time; the dummy ones installed by
\* setup return the zero template.  A model without such parameters has empty
\* entries.
tvp_fun_at(t, k) ==
    IF model.n_tvp = 0 \/ tvp_fun # "user" THEN 0 ELSE 10 + t + k

p_fun_at(t, c) ==
    IF model.n_p = 0 \/ p_fun.kind # "user" THEN 0 ELSE 20 + t + c

-----------------------------------------------------------------------------
(* bounds: the setter of the path bounds. *)

\* The assignments the model makes to the path bounds: <<type, class, value>>.
BoundInputs ==
    { <<"upper", "_x", 5>>, <<"upper", "_x", 0>>,
      <<"upper", "_u", 0>>, <<"upper", "_z", 0>> }

bounds_set(bound_type, var_type, val) ==
    /\ bnd' = [bnd EXCEPT ![var_type] =
                  IF bound_type = "lower" THEN [@ EXCEPT !.lb = val]
                                          ELSE [@ EXCEPT !.ub = val]]
    /\ lastCall' = Call("bounds", "ok", {}, Unset)
    /\ UNCHANGED <<model, scaling, flags, param, cost, rterm_factor, tvp_fun, p_fun,
                   n_combinations, terminal, lb_opt_x, ub_opt_x,
                   nl_cons, scenario_tree, nlp, terminal_assigned>>
    /\ UNCHANGED runtime

SetBounds == \E a \in BoundInputs : bounds_set(a[1], a[2], a[3])

\* The terminal bounds the model assigns: mpc.terminal_bounds[type, '_x', name] = val.
TerminalBoundInputs == { <<"lower", 3>>, <<"upper", 4>>, <<"upper", 0>> }

\* The setter of terminal_bounds assigns into the structure the attribute
\* _x_terminal_lb or _x_terminal_ub refers to: the structure of the path
\* bounds once _check_validity has made the attribute refer to it.
terminal_bounds_set(bound_type, val) ==
    /\ IF bound_type = "lower"
       THEN IF terminal.lb_alias
            THEN /\ bnd' = [bnd EXCEPT !["_x"].lb = val]
                 /\ UNCHANGED terminal
            ELSE /\ terminal' = [terminal EXCEPT !.lb = val]
                 /\ UNCHANGED bnd
       ELSE IF terminal.ub_alias
            THEN /\ bnd' = [bnd EXCEPT !["_x"].ub = val]
                 /\ UNCHANGED terminal
            ELSE /\ terminal' = [terminal EXCEPT !.ub = val]
                 /\ UNCHANGED bnd
    /\ terminal_assigned' =
          IF bound_type = "lower" THEN [terminal_assigned EXCEPT !.lb = val]
                                  ELSE [terminal_assigned EXCEPT !.ub = val]
    /\ lastCall' = Call("terminal_bounds", "ok", {}, Unset)
    /\ UNCHANGED <<model, scaling, flags, param, cost, rterm_factor, tvp_fun, p_fun,
                   n_combinations, lb_opt_x, ub_opt_x, nl_cons, scenario_tree, nlp>>
    /\ UNCHANGED runtime

SetTerminalBounds == \E a \in TerminalBoundInputs : terminal_bounds_set(a[1], a[2])

\* Names of the states of the model (model._x.keys()).
StateNames == {"x"}

\* The power indices the model passes to terminal_bounds: bound type and
\* name, as in the docstring, and bound type, variable type and name.
TerminalIndexInputs ==
    { <<"lower", "x">>, <<"upper", "x">>,
      <<"lower", "_x", "x">>, <<"upper", "_x", "x">> }

\* The values the model assigns through terminal_bounds[ind].
TerminalValueInputs == {3, 4}

\* mpc.terminal_bounds[ind] = val: the assertions on the index, then the
\* assignment into the structure of the bound type.
terminal_bounds_setitem(ind, val) ==
    IF Len(ind) < 3
           \/ ind[1] \notin {"lower", "upper"}
           \/ ind[2] \notin {"_x", "_u", "_z", "_p_est"}
    THEN /\ lastCall' = CallWith("terminal_bounds", ind, "AssertionError", {}, Unset)
         /\ UNCHANGED state
    ELSE terminal_bounds_set(ind[1], val)

TerminalBoundsSetItem ==
    \E ind \in TerminalIndexInputs, val \in TerminalValueInputs :
        terminal_bounds_setitem(ind, val)

\* mpc.terminal_bounds[ind]: after the assertions on the index, the name of
\* the structure is formatted from var_type, a name the getter never binds.
terminal_bounds_getitem(ind) ==
    /\ lastCall' = CallWith("terminal_bounds (getter)", ind,
           IF Len(ind) < 2 \/ ind[1] \notin {"lower", "upper"}
           THEN "AssertionError" ELSE "NameError", {}, Unset)
    /\ UNCHANGED state

TerminalBoundsGetItem == \E ind \in TerminalIndexInputs : terminal_bounds_getitem(ind)

-----------------------------------------------------------------------------
(* setup: prepare_nlp (with _check_validity) and create_nlp. *)

\* The configurations for which _check_validity raises.
\* ValidityError without the comparison of the lower with the upper bounds.
ValidityError_bounds_unchecked ==
    \/ flags.set_objective = FALSE
    \/ flags.set_tvp_fun = FALSE /\ model.n_tvp > 0
    \/ flags.set_p_fun = FALSE /\ model.n_p > 0

\* The errors of _check_validity.
ValidityError ==
    \/ flags.set_objective = FALSE
    \/ flags.set_tvp_fun = FALSE /\ model.n_tvp > 0
    \/ flags.set_p_fun = FALSE /\ model.n_p > 0
    \/ \E c \in {"_x", "_u", "_z"} : bnd[c].lb > bnd[c].ub

\* The warnings of _check_validity.
ValidityWarnings ==
    (IF flags.set_rterm = FALSE THEN {"rterm was not set"} ELSE {})
        \cup (IF \E n \in InputNames : rterm_factor[n] < 0
              THEN {"negative rterm"} ELSE {})

\* The terminal bounds after _check_validity: an unset terminal bound becomes
\* the path bound structure itself.
TerminalDefaults ==
    [terminal EXCEPT
        !.ub_alias = @ \/ (x_terminal_ub = Inf /\ param.use_terminal_bounds),
        !.lb_alias = @ \/ (x_terminal_lb = 0 - Inf /\ param.use_terminal_bounds)]

\* ZeroVector keeping a decision vector of the same layout that already exists.
ZeroVector_keep_existing(index) ==
    IF DOMAIN opt_x_num = index THEN opt_x_num ELSE Filled(index, 0)

\* The numeric structures _prepare_nlp creates: all zero.
ZeroVector(index) == Filled(index, 0)

setup ==
    IF ValidityError
    THEN /\ lastCall' = Call("setup", "Exception",
                IF flags.set_objective THEN ValidityWarnings ELSE {}, Unset)
         /\ UNCHANGED state
    ELSE IF tvp_fun = "unset" /\ param.n_horizon = Unset
    THEN \* get_tvp_template needs n_horizon
         /\ terminal' = TerminalDefaults
         /\ lastCall' = Call("setup", "AttributeError", ValidityWarnings, Unset)
         /\ UNCHANGED <<model, scaling, flags, param, cost, rterm_factor, tvp_fun,
                        p_fun, n_combinations, bnd, lb_opt_x, ub_opt_x,
                        nl_cons, scenario_tree, nlp, terminal_assigned>>
         /\ UNCHANGED runtime
    ELSE LET nc  == IF p_fun.kind = "unset" THEN 1 ELSE n_combinations
             idx == OptXIndex(model, nc, param)
             t1  == TerminalDefaults
             tlb == IF t1.lb_alias THEN bnd["_x"].lb ELSE t1.lb
             tub == IF t1.ub_alias THEN bnd["_x"].ub ELSE t1.ub
         IN  /\ terminal' = t1
             /\ tvp_fun' = IF tvp_fun = "unset" THEN "dummy" ELSE tvp_fun
             /\ p_fun' = IF p_fun.kind = "unset" THEN [kind |-> "dummy", n |-> 1]
                         ELSE p_fun
             /\ n_combinations' = nc
             /\ lb_opt_x' = _update_bounds(Filled(idx, 0 - Inf), "lb", bnd, tlb, param)
             /\ ub_opt_x' = _update_bounds(Filled(idx, Inf), "ub", bnd, tub, param)
             /\ scenario_tree' = _setup_scenario_tree(nc, param)
             /\ nlp' = AssembleNlp(model, param, _setup_scenario_tree(nc, param), nl_cons)
             /\ opt_x_num' = ZeroVector(idx)
             /\ opt_p_num' = ZeroVector(OptPIndex(nc, param))
             /\ flags' = [flags EXCEPT !.set_tvp_fun = TRUE, !.set_p_fun = TRUE,
                                       !.prepare_nlp = TRUE, !.setup = TRUE]
             /\ lastCall' = Call("setup", "ok", ValidityWarnings, Unset)
             /\ UNCHANGED <<model, scaling, param, cost, rterm_factor, bnd, nl_cons,
                            terminal_assigned,
                            _t0, _x0, _u0, _z0, solver_stats, data, S_call>>

\* A call of _update_bounds by itself: the bound arrays exist once
\* _prepare_nlp has created them.
update_bounds ==
    IF lb_opt_x = NoVec
    THEN /\ lastCall' = Call("_update_bounds", "AttributeError", {}, Unset)
         /\ UNCHANGED state
    ELSE /\ lb_opt_x' = _update_bounds(lb_opt_x, "lb", bnd, x_terminal_lb, param)
         /\ ub_opt_x' = _update_bounds(ub_opt_x, "ub", bnd, x_terminal_ub, param)
         /\ lastCall' = Call("_update_bounds", "ok", {}, Unset)
         /\ UNCHANGED <<model, scaling, flags, param, cost, rterm_factor, tvp_fun,
                        p_fun, n_combinations, bnd, terminal, nl_cons, scenario_tree,
                        nlp, terminal_assigned>>
         /\ UNCHANGED runtime

-----------------------------------------------------------------------------
(* set_initial_guess *)

\* opt_x_num after set_initial_guess: the initial values, scaled, at every
\* stage, scenario and collocation point.
InitialGuess(optx) ==
    [i \in DOMAIN optx |->
        CASE i[1] = "_x" -> _x0 \div scaling
          [] i[1] = "_u" -> _u0 \div scaling
          [] i[1] = "_z" -> _z0 \div scaling
          [] OTHER -> optx[i]]

\* set_initial_guess without its assertion on the setup flag.
set_initial_guess_unchecked ==
    /\ opt_x_num' = InitialGuess(opt_x_num)
    /\ flags' = [flags EXCEPT !.set_initial_guess = TRUE]
    /\ lastCall' = Call("set_initial_guess", "ok", {}, Unset)
    /\ UNCHANGED <<model, scaling, param, cost, rterm_factor, tvp_fun, p_fun,
                   n_combinations, bnd, terminal, lb_opt_x, ub_opt_x,
                   nl_cons, scenario_tree, nlp, terminal_assigned,
                   _t0, _x0, _u0, _z0, opt_p_num, solver_stats, data, S_call>>

set_initial_guess ==
    IF flags.setup # TRUE
    THEN /\ lastCall' = Call("set_initial_guess", "AssertionError", {}, Unset)
         /\ UNCHANGED state
    ELSE /\ opt_x_num' = InitialGuess(opt_x_num)
         /\ flags' = [flags EXCEPT !.set_initial_guess = TRUE]
         /\ lastCall' = Call("set_initial_guess", "ok", {}, Unset)
         /\ UNCHANGED <<model, scaling, param, cost, rterm_factor, tvp_fun, p_fun,
                        n_combinations, bnd, terminal, lb_opt_x, ub_opt_x,
                        nl_cons, scenario_tree, nlp, terminal_assigned,
                        _t0, _x0, _u0, _z0, opt_p_num, solver_stats, data, S_call>>

-----------------------------------------------------------------------------
(* make_step *)

\* The arguments the model passes as x0: the type and the elements.
X0Inputs ==
    { [type |-> "ndarray",  elems |-> <<0>>],
      [type |-> "DMStruct", elems |-> <<2>>],
      [type |-> "DM",       elems |-> <<2, 0>>],
      [type |-> "list",     elems |-> <<2>>] }

\* What the solver may return: a vector and whether it converged.
SolverOutcomes ==
    { [seed |-> 0, success |-> TRUE],
      [seed |-> 1, success |-> FALSE] }

\* CheckX0 without the type check.
CheckX0_any_type(x0) ==
    IF Len(x0.elems) # model.n_x THEN "AssertionError" ELSE "ok"

\* The type check and the shape check of x0: the exception raised, or "ok".
CheckX0(x0) ==
    IF x0.type \notin {"ndarray", "DM", "DMStruct"} THEN "Exception"
    ELSE IF Len(x0.elems) # model.n_x THEN "AssertionError"
    ELSE "ok"

\* GuessWarning issued on every call.
GuessWarning_every_call(fl) == {"initial guess was not set"}

\* The warning make_step issues when no initial guess was supplied.
GuessWarning(fl) ==
    IF ~fl.set_initial_guess THEN {"initial guess was not set"} ELSE {}

\* RefreshParams with the parameter functions evaluated at the next time step.
RefreshParams_advanced_clock(p, x0, u_prev, t) ==
    [i \in DOMAIN p |->
        CASE i[1] = "_x0"     -> x0
          [] i[1] = "_u_prev" -> u_prev
          [] i[1] = "_tvp"    -> tvp_fun_at(t + param.t_step, i[2])
          [] i[1] = "_p"      -> p_fun_at(t + param.t_step, i[2])]

\* The parameter struct make_step hands to the solver.
RefreshParams(p, x0, u_prev, t) ==
    [i \in DOMAIN p |->
        CASE i[1] = "_x0"     -> x0
          [] i[1] = "_u_prev" -> u_prev
          [] i[1] = "_tvp"    -> tvp_fun_at(t, i[2])
          [] i[1] = "_p"      -> p_fun_at(t, i[2])]

\* The solver: some vector of the shape of its initial guess.
S(seed, guess) == [i \in DOMAIN guess |-> seed + 1 + i[2] + i[3]]

\* Optimizer.solve: the solver is called with opt_x_num as initial guess and
\* opt_p_num as parameters, and opt_x_num is overwritten with its result.
solve(seed, guess, p) == S(seed, guess)

\* KeptSolution retaining the first-stage input only.
KeptSolution_first_input(r) ==
    [i \in DOMAIN r |-> IF i = <<"_u", 0, 0>> THEN r[i] ELSE 0]

\* opt_x_num when make_step returns: what solve stored; make_step reads it and
\* assigns nothing to it.
KeptSolution(r) == r

\* ExtractU0 reading the input of the second stage.
ExtractU0_second_stage(optx) == optx[<<"_u", 1, 0>>] * scaling

\* The solution make_step extracts: first stage, first scenario, unscaled.
ExtractU0(optx) == optx[<<"_u", 0, 0>>] * scaling
ExtractZ0(optx) == optx[<<"_z", 0, 0, 0>>] * scaling

\* The row make_step appends to the data object.
Snapshot(x0, u0, z0, t, success) ==
    [_x |-> x0, _u |-> u0, _z |-> z0, _tvp |-> tvp_fun_at(t, 0), _time |-> t,
     success |-> success]

\* data.update: the row is appended.  The data object is modelled by the number
\* of its rows and the last of them.
DataUpdate(d, row) == [n |-> d.n + 1, last |-> <<row>>]

\* NextTime advancing by one time unit instead of one t_step.
NextTime_unit(t) == t + 1

\* The clock after make_step.
NextTime(t) == t + param.t_step

make_step(x0, out) ==
    IF flags.setup # TRUE
    THEN /\ lastCall' = CallWith("make_step", x0, "AssertionError", {}, Unset)
         /\ UNCHANGED state
    ELSE IF CheckX0(x0) # "ok"
    THEN /\ lastCall' = CallWith("make_step", x0, CheckX0(x0), {}, Unset)
         /\ UNCHANGED state
    ELSE LET x  == x0.elems[1]
             p1 == RefreshParams(opt_p_num, x, _u0, _t0)
             r  == solve(out.seed, opt_x_num, p1)
             u0 == ExtractU0(r)
             z0 == ExtractZ0(r)
         IN  /\ data.n < MaxSteps
             /\ flags' = [flags EXCEPT !.set_initial_guess = TRUE]
             /\ opt_p_num' = p1
             /\ S_call' = [n |-> S_call.n + 1, x0 |-> opt_x_num, p |-> p1]
             /\ opt_x_num' = KeptSolution(r)
             /\ solver_stats' = {<<"success", out.success>>}
             /\ data' = DataUpdate(data, Snapshot(x, u0, z0, _t0, out.success))
             /\ _t0' = NextTime(_t0)
             /\ _x0' = x
             /\ _u0' = u0
             /\ _z0' = z0
             /\ lastCall' = CallWith("make_step", x0, "ok", GuessWarning(flags), u0)
             /\ UNCHANGED <<model, scaling, param, cost, rterm_factor, tvp_fun,
                            p_fun, n_combinations, bnd, terminal, lb_opt_x, ub_opt_x,
                            nl_cons, scenario_tree, nlp, terminal_assigned>>

MakeStep == \E x0 \in X0Inputs, out \in SolverOutcomes : make_step(x0, out)

-----------------------------------------------------------------------------
(* The specifications. *)

\* Every operation of the controller but the bounds setter.
Next ==
    \/ SetParam
    \/ SetObjective
    \/ SetRterm
    \/ GetPTemplate
    \/ SetPFun
    \/ set_tvp_fun
    \/ setup
    \/ set_initial_guess
    \/ MakeStep

Spec == Init /\ [][Next]_vars

\* A controller configured up to its bounds, whose lower path bounds were all
\* set to 1: with everything setup asks for, or with one of the objective, the
\* tvp_fun and the p_fun missing.
ConfiguredInputs ==
    { [objective |-> o, tvp |-> t, p |-> p] :
        o \in BOOLEAN, t \in BOOLEAN, p \in BOOLEAN }

InitConfigured ==
    \E c \in ConfiguredInputs :
        /\ model \in Models
        /\ scaling = ScalingOf(model)
        /\ flags = [InitFlags EXCEPT !.set_objective = c.objective,
                                     !.set_tvp_fun = c.tvp, !.set_p_fun = c.p]
        /\ param = SetAttrs(DefaultParam, [n_horizon |-> 2, t_step |-> 2])
        /\ cost = IF c.objective THEN [mterm |-> "m1", lterm |-> "l1"]
                  ELSE [mterm |-> "unset", lterm |-> "unset"]
        /\ rterm_factor = [n \in InputNames |-> 0]
        /\ tvp_fun = IF c.tvp THEN "user" ELSE "unset"
        /\ p_fun = IF c.p THEN [kind |-> "user", n |-> 2] ELSE [kind |-> "unset", n |-> 0]
        /\ n_combinations = 2
        /\ bnd = [v \in {"_x", "_u", "_z"} |-> [lb |-> 1, ub |-> Inf]]
        /\ terminal = [lb |-> 0 - Inf, ub |-> Inf, lb_alias |-> FALSE, ub_alias |-> FALSE]
        /\ _t0 = 0 /\ _x0 = 0 /\ _u0 = 0 /\ _z0 = 0
        /\ opt_x_num = NoVec
        /\ opt_p_num = NoVec
        /\ lb_opt_x = NoVec
        /\ ub_opt_x = NoVec
        /\ nl_cons = NoNlCons
        /\ scenario_tree = NoTree
        /\ nlp = NoNlp
        /\ terminal_assigned = [lb |-> Unset, ub |-> Unset]
        /\ solver_stats = {}
        /\ data = [n |-> 0, last |-> <<>>]
        /\ S_call = [n |-> 0, x0 |-> NoVec, p |-> NoVec]
        /\ lastCall = Call("bounds", "ok", {}, Unset)

\* The operations that follow the configuration: adapting the bounds, setup
\* and re-setup, and the control steps.
NextSetup ==
    \/ SetBounds
    \/ setup
    \/ MakeStep

SpecSetup == InitConfigured /\ [][NextSetup]_vars

-----------------------------------------------------------------------------
(* The assembly of the problem for every tree: a controller configured with a
   horizon, a robust horizon, a number of combinations of the uncertain
   parameters and nonlinear constraints, and then set up. *)

MaxHorizon == 3
MaxRobust == 2
MaxCombinations == 3

\* set_nl_cons: no constraint, a hard constraint, a soft constraint.
NlConsInputs ==
    { NoNlCons, [n |-> 1, soft |-> FALSE], [n |-> 1, soft |-> TRUE] }

AssemblyInputs ==
    { [n_horizon |-> N, n_robust |-> r, open_loop |-> o,
       nl_cons_check_colloc_points |-> c, nl_cons_single_slack |-> e,
       cons_check_colloc_points |-> d, t_step |-> 2] :
        N \in 1 .. MaxHorizon, r \in 0 .. MaxRobust, o \in BOOLEAN,
        c \in BOOLEAN, e \in BOOLEAN, d \in BOOLEAN }

InitAssembly ==
    \E kwargs \in AssemblyInputs, nc \in 1 .. MaxCombinations, nlc \in NlConsInputs :
        /\ model \in Models
        /\ scaling = ScalingOf(model)
        /\ flags = [InitFlags EXCEPT !.set_objective = TRUE, !.set_tvp_fun = TRUE,
                                     !.set_p_fun = TRUE]
        /\ param = SetAttrs(DefaultParam, kwargs)
        /\ cost = [mterm |-> "m1", lterm |-> "l1"]
        /\ rterm_factor = [n \in InputNames |-> 0]
        /\ tvp_fun = "user"
        /\ p_fun = [kind |-> "user", n |-> nc]
        /\ n_combinations = nc
        /\ bnd = [v \in {"_x", "_u", "_z"} |-> [lb |-> 1, ub |-> 5]]
        /\ terminal = [lb |-> 0 - Inf, ub |-> Inf, lb_alias |-> FALSE, ub_alias |-> FALSE]
        /\ _t0 = 0 /\ _x0 = 0 /\ _u0 = 0 /\ _z0 = 0
        /\ opt_x_num = NoVec
        /\ opt_p_num = NoVec
        /\ lb_opt_x = NoVec
        /\ ub_opt_x = NoVec
        /\ nl_cons = nlc
        /\ scenario_tree = NoTree
        /\ nlp = NoNlp
        /\ terminal_assigned = [lb |-> Unset, ub |-> Unset]
        /\ solver_stats = {}
        /\ data = [n |-> 0, last |-> <<>>]
        /\ S_call = [n |-> 0, x0 |-> NoVec, p |-> NoVec]
        /\ lastCall = Call("set_nl_cons", "ok", {}, Unset)

NextAssembly == setup

SpecAssembly == InitAssembly /\ [][NextAssembly]_vars

-----------------------------------------------------------------------------
(* The bounds of the decision vector: a configured controller whose path and
   terminal bounds are assigned before setup and between two setups. *)

\* The path bounds of the states the model assigns.
PathBoundInputs == { <<"upper", "_x", 5>>, <<"upper", "_x", 2>> }

SetPathBounds == \E a \in PathBoundInputs : bounds_set(a[1], a[2], a[3])

BoundsInputs ==
    { [n_horizon |-> 2, t_step |-> 2, n_robust |-> 1,
       cons_check_colloc_points |-> c, use_terminal_bounds |-> u] :
        c \in BOOLEAN, u \in BOOLEAN }

InitBounds ==
    \E kwargs \in BoundsInputs :
        /\ model \in Models
        /\ scaling = ScalingOf(model)
        /\ flags = [InitFlags EXCEPT !.set_objective = TRUE, !.set_tvp_fun = TRUE,
                                     !.set_p_fun = TRUE]
        /\ param = SetAttrs(DefaultParam, kwargs)
        /\ cost = [mterm |-> "m1", lterm |-> "l1"]
        /\ rterm_factor = [n \in InputNames |-> 0]
        /\ tvp_fun = "user"
        /\ p_fun = [kind |-> "user", n |-> 2]
        /\ n_combinations = 2
        /\ bnd = [v \in {"_x", "_u", "_z"} |-> [lb |-> 1, ub |-> Inf]]
        /\ terminal = [lb |-> 0 - Inf, ub |-> Inf, lb_alias |-> FALSE, ub_alias |-> FALSE]
        /\ _t0 = 0 /\ _x0 = 0 /\ _u0 = 0 /\ _z0 = 0
        /\ opt_x_num = NoVec
        /\ opt_p_num = NoVec
        /\ lb_opt_x = NoVec
        /\ ub_opt_x = NoVec
        /\ nl_cons = NoNlCons
        /\ scenario_tree = NoTree
        /\ nlp = NoNlp
        /\ terminal_assigned = [lb |-> Unset, ub |-> Unset]
        /\ solver_stats = {}
        /\ data = [n |-> 0, last |-> <<>>]
        /\ S_call = [n |-> 0, x0 |-> NoVec, p |-> NoVec]
        /\ lastCall = Call("bounds", "ok", {}, Unset)

NextBounds ==
    \/ SetPathBounds
    \/ SetTerminalBounds
    \/ setup

SpecBounds == InitBounds /\ [][NextBounds]_vars

\* The same controller with the propagation of the bounds run again by itself.
NextPropagate ==
    \/ SetPathBounds
    \/ SetTerminalBounds
    \/ setup
    \/ update_bounds

SpecPropagate == InitBounds /\ [][NextPropagate]_vars

\* The same controller with its terminal bounds assigned and queried by index.
NextTerminal ==
    \/ TerminalBoundsSetItem
    \/ TerminalBoundsGetItem
    \/ setup

SpecTerminal == InitBounds /\ [][NextTerminal]_vars

-----------------------------------------------------------------------------
(* The parameter template: a configured controller whose template is asked
   for with several numbers of combinations, before and after the p_fun is
   registered. *)

\* The numbers of combinations passed to get_p_template and returned by the
\* functions passed to set_p_fun.
TemplateInputs == {2, 3}

GetAnyPTemplate == \E n \in TemplateInputs : get_p_template(n)

SetAnyPFun == \E n \in TemplateInputs : set_p_fun(n)

NextTemplate ==
    \/ GetAnyPTemplate
    \/ SetAnyPFun
    \/ setup

SpecTemplate == InitConfigured /\ [][NextTemplate]_vars

-----------------------------------------------------------------------------
(* The properties.  A step of a behaviour is one API call; lastCall' names it. *)

Called(op)   == lastCall'.op = op
Returned(op) == lastCall'.op = op /\ lastCall'.status = "ok"
Raised(op)   == lastCall'.op = op /\ lastCall'.status # "ok"

\* C1: make_step and set_initial_guess called while the setup flag is False
\* raise; no solve is performed and the clock, the parameter vector, the
\* decision vector and the rest of the state are unchanged.
C1_RejectedBeforeSetup ==
    [][ (flags.setup = FALSE /\ (Called("make_step") \/ Called("set_initial_guess")))
            => /\ lastCall'.status = "AssertionError"
               /\ S_call'.n = S_call.n
               /\ UNCHANGED <<_t0, opt_p_num, opt_x_num>>
               /\ UNCHANGED state ]_vars

C1_Witness ==
    /\ flags.setup = FALSE
    /\ flags.set_objective = TRUE
    /\ lastCall.op = "make_step"
    /\ lastCall.args.elems = <<2>>
    /\ lastCall.status = "AssertionError"

\* C2: once setup has completed, set_param, set_objective and set_rterm raise
\* and leave the parameters, the cost terms, the rate-penalty weights and the
\* flags unchanged.
C2_ConfigurationFrozen ==
    [][ (flags.setup = TRUE
         /\ (Called("set_param") \/ Called("set_objective") \/ Called("set_rterm")))
            => /\ lastCall'.status = "AssertionError"
               /\ UNCHANGED <<param, cost, rterm_factor, flags>> ]_vars

C2_Witness ==
    /\ flags.setup = TRUE
    /\ lastCall.op = "set_param"
    /\ lastCall.status = "AssertionError"
    /\ param.n_robust = 0
    /\ cost.mterm = "m1"
    /\ flags.set_rterm = FALSE

\* C3: when make_step invokes the solver, the parameter vector holds x0 in the
\* initial-state slot, the input returned by the preceding make_step (the
\* initial u0 before the first) in the previous-input slot, and tvp_fun(t) and
\* p_fun(t) at the clock value t before it is advanced.  The attribute u0 is
\* assigned by make_step alone, with the physical input it returns.
C3_ParametersAtSolve ==
    [][ /\ Returned("make_step") =>
            /\ S_call'.n = S_call.n + 1
            /\ S_call'.p = opt_p_num'
            /\ DOMAIN S_call'.p = DOMAIN opt_p_num
            /\ S_call'.p[<<"_x0">>] = lastCall'.args.elems[1]
            /\ S_call'.p[<<"_u_prev">>] = _u0
            /\ \A i \in DOMAIN S_call'.p :
                  /\ i[1] = "_tvp" => S_call'.p[i] = tvp_fun_at(_t0, i[2])
                  /\ i[1] = "_p" => S_call'.p[i] = p_fun_at(_t0, i[2])
            /\ _u0' = lastCall'.ret
            /\ lastCall'.ret = opt_x_num'[<<"_u", 0, 0>>] * scaling
        /\ ~Returned("make_step") => _u0' = _u0 ]_vars

C3_Witness ==
    /\ lastCall.op = "make_step"
    /\ lastCall.status = "ok"
    /\ data.n = 2
    /\ model.n_tvp > 0
    /\ S_call.p[<<"_u_prev">>] = 4
    /\ S_call.p[<<"_tvp", 1>>] = 13
    /\ S_call.p[<<"_p", 1>>] = 23
    /\ S_call.p[<<"_x0">>] = 0

\* C4: each make_step that returns advances the clock by exactly one t_step and
\* stores the clock value before the advance in its data row; nothing else
\* moves the clock, so after n returned calls the clock is n*t_step.
C4_ClockAdvance ==
    /\ [](flags.setup = TRUE => _t0 = data.n * param.t_step)
    /\ [][ /\ Returned("make_step") =>
               /\ _t0' = _t0 + param.t_step
               /\ data'.n = data.n + 1
               /\ data'.last[1]._time = _t0
           /\ ~Returned("make_step") => (_t0' = _t0 /\ data' = data) ]_vars

C4_Witness ==
    /\ lastCall.op = "make_step"
    /\ lastCall.status = "ok"
    /\ data.n = 2
    /\ _t0 = 4
    /\ data.last[1]._time = 2

\* C5: the vector the solver returns is kept whole, at every stage and
\* scenario, and is the initial guess of the next solve; between two solves
\* only set_initial_guess and setup write the decision vector.
C5_WarmStart ==
    [][ /\ Returned("make_step") =>
            /\ S_call'.x0 = opt_x_num
            /\ \E out \in SolverOutcomes :
                  /\ solver_stats' = {<<"success", out.success>>}
                  /\ opt_x_num' = S(out.seed, opt_x_num)
        /\ opt_x_num' # opt_x_num =>
              \/ Returned("make_step")
              \/ Returned("set_initial_guess")
              \/ Returned("setup") ]_vars

C5_Witness ==
    /\ lastCall.op = "make_step"
    /\ lastCall.status = "ok"
    /\ S_call.n = 2
    /\ S_call.x0 = S(1, opt_x_num)
    /\ S_call.x0[<<"_x", 2, 0, 0>>] = 4
    /\ opt_x_num = S(0, opt_x_num)

\* C6: make_step on a set-up controller without an initial guess does not
\* fail on that account: it warns, hands the all-zero vector to the solver and
\* returns an input.  The call sets the guess flag, which is never cleared, so
\* every later make_step runs without the warning.
C6_MissingGuess ==
    [][ /\ (flags.setup = TRUE /\ ~flags.set_initial_guess /\ Called("make_step")
            /\ lastCall'.args.type \in {"ndarray", "DM", "DMStruct"}
            /\ Len(lastCall'.args.elems) = model.n_x) =>
              /\ lastCall'.status = "ok"
              /\ lastCall'.warn = {"initial guess was not set"}
              /\ S_call'.x0 = [i \in DOMAIN opt_x_num |-> 0]
              /\ lastCall'.ret \in Nat
              /\ flags'.set_initial_guess
        /\ (flags.set_initial_guess /\ Returned("make_step")) => lastCall'.warn = {}
        /\ flags.set_initial_guess => flags'.set_initial_guess ]_vars

C6_Witness ==
    /\ lastCall.op = "make_step"
    /\ lastCall.status = "ok"
    /\ lastCall.warn = {}
    /\ S_call.n = 2
    /\ \E i \in DOMAIN S_call.x0 : S_call.x0[i] # 0
    /\ data.last[1]._u # 0

\* C7: make_step with an x0 of the wrong number of elements or of a type that
\* is not accepted raises and leaves the parameter vector, the decision
\* vector, the clock, the data, the previous input and every flag unchanged.
C7_BadX0 ==
    [][ (Called("make_step")
         /\ (\/ Len(lastCall'.args.elems) # model.n_x
             \/ lastCall'.args.type \notin {"ndarray", "DM", "DMStruct"})) =>
            /\ lastCall'.status \in {"AssertionError", "Exception"}
            /\ S_call'.n = S_call.n
            /\ UNCHANGED <<opt_p_num, opt_x_num, _t0, data, _u0, flags>>
            /\ UNCHANGED state ]_vars

C7_Witness ==
    /\ flags.setup = TRUE
    /\ flags.set_initial_guess
    /\ data.n = 1
    /\ lastCall.op = "make_step"
    /\ lastCall.args.elems = <<2, 0>>
    /\ lastCall.status = "AssertionError"

\* C9: a make_step whose solve does not converge completes like any other: it
\* returns the first-stage input of the vector the solver left, appends the
\* row with the solver status, advances the clock by t_step and keeps the
\* vector as the next initial guess.
C9_NonConvergence ==
    [][ (S_call'.n = S_call.n + 1 /\ solver_stats' = {<<"success", FALSE>>}) =>
            /\ Returned("make_step")
            /\ lastCall'.ret = opt_x_num'[<<"_u", 0, 0>>] * scaling
            /\ data'.n = data.n + 1
            /\ data'.last[1].success = FALSE
            /\ data'.last[1]._u = lastCall'.ret
            /\ data'.last[1]._x = lastCall'.args.elems[1]
            /\ _t0' = _t0 + param.t_step
            /\ opt_x_num' = S(1, opt_x_num) ]_vars

C9_Witness ==
    /\ lastCall.op = "make_step"
    /\ lastCall.status = "ok"
    /\ solver_stats = {<<"success", FALSE>>}
    /\ data.n = 2
    /\ data.last[1].success = FALSE
    /\ S_call.x0 = S(1, opt_x_num)

\* C8: setup raises when the objective was never set, when the model has
\* time-varying parameters and no tvp_fun, when it has uncertain parameters
\* and no p_fun, or when a lower bound exceeds the upper bound of the states,
\* inputs or algebraic variables.  A failed setup changes no flag: a
\* controller that was not set up is still not set up, and make_step on it
\* is rejected.
C8_SetupFails ==
    [][ /\ (Called("setup")
            /\ (\/ cost.mterm = "unset"
                \/ model.n_tvp > 0 /\ tvp_fun = "unset"
                \/ model.n_p > 0 /\ p_fun.kind = "unset"
                \/ \E c \in {"_x", "_u", "_z"} : bnd[c].lb > bnd[c].ub)) =>
              /\ lastCall'.status = "Exception"
              /\ UNCHANGED state
        /\ Raised("setup") => flags' = flags
        /\ (flags.setup = FALSE /\ Raised("setup")) => flags'.setup = FALSE
        /\ (flags.setup = FALSE /\ Called("make_step")) =>
              lastCall'.status = "AssertionError" ]_vars

C8_Witness ==
    /\ lastCall.op = "setup"
    /\ lastCall.status = "Exception"
    /\ flags.setup = FALSE
    /\ cost.mterm = "m1"
    /\ tvp_fun = "user"
    /\ p_fun.kind = "user"
    /\ bnd["_z"].lb > bnd["_z"].ub
    /\ bnd["_x"].lb <= bnd["_x"].ub
    /\ bnd["_u"].lb <= bnd["_u"].ub

\* C10 as stated: the first make_step after a setup uses no value computed
\* before that setup: its initial guess is all zero and its previous-input
\* slot holds the initial input, zero.
C10_NothingReused ==
    [][ (lastCall.op = "setup" /\ lastCall.status = "ok" /\ Returned("make_step")) =>
            /\ S_call'.x0 = [i \in DOMAIN opt_x_num |-> 0]
            /\ S_call'.p[<<"_u_prev">>] = 0 ]_vars

\* C10, amended: setup, run again, leaves the decision vector and the
\* parameter vector all zero, and the first make_step after it starts from
\* the all-zero guess; setup keeps the input attribute u0 and the clock, so
\* the previous-input slot of that make_step holds the input returned by the
\* last make_step before the re-setup and its parameter functions are
\* evaluated at the clock that make_step left.
C10_ReSetup ==
    [][ /\ Returned("setup") =>
            /\ \A i \in DOMAIN opt_x_num' : opt_x_num'[i] = 0
            /\ \A i \in DOMAIN opt_p_num' : opt_p_num'[i] = 0
            /\ DOMAIN opt_x_num' # {}
            /\ DOMAIN opt_p_num' # {}
            /\ UNCHANGED <<_u0, _t0, data>>
        /\ (lastCall.op = "setup" /\ lastCall.status = "ok" /\ Returned("make_step")) =>
            /\ \A i \in DOMAIN S_call'.x0 : S_call'.x0[i] = 0
            /\ S_call'.p[<<"_u_prev">>] = _u0
            /\ data.n > 0 => _u0 = data.last[1]._u
            /\ data'.last[1]._time = data.n * param.t_step ]_vars

C10_Witness ==
    /\ lastCall.op = "make_step"
    /\ lastCall.status = "ok"
    /\ data.n = 2
    /\ \A i \in DOMAIN S_call.x0 : S_call.x0[i] = 0
    /\ S_call.p[<<"_u_prev">>] # 0
    /\ data.last[1]._time = 2

\* C11: after setup the tree has 1 scenario at stage 0 and, from stage k to
\* stage k+1, n_combinations times as many while k < n_robust and as many
\* afterwards (n_combinations^min(k, n_robust)); every node of stage k has
\* n_combinations children if k < n_robust and 1 otherwise; the children of
\* stage k are the n_scenarios[k+1] nodes of stage k+1, each the child of
\* one branch; and no stage has more scenarios than the scenario axis of the
\* decision vector is wide.
C11_TreeShape ==
    flags.setup = TRUE =>
        LET t  == scenario_tree
            N  == param.n_horizon
            nr == param.n_robust
            nc == n_combinations
            width == Cardinality({ i[3] : i \in { j \in DOMAIN opt_x_num : j[1] = "_x" } })
            branches(k) == { br \in Branches(t, param) : br[1] = k }
        IN  /\ t.n_scenarios[0] = 1
            /\ \A k \in 0 .. (N - 1) :
                  /\ t.n_scenarios[k + 1] =
                        t.n_scenarios[k] * (IF k < nr THEN nc ELSE 1)
                  /\ \A s \in 0 .. (t.n_scenarios[k] - 1) :
                        Cardinality(DOMAIN t.child_scenario[k][s]) =
                            (IF k < nr THEN nc ELSE 1)
                  /\ Cardinality(branches(k)) = t.n_scenarios[k + 1]
                  /\ { t.child_scenario[k][br[2]][br[3]] : br \in branches(k) } =
                        0 .. (t.n_scenarios[k + 1] - 1)
            /\ \A k \in 0 .. N : t.n_scenarios[k] <= width
            /\ (nc = 2 /\ nr = 1 /\ N = 3) =>
                  t.n_scenarios = [k \in 0 .. 3 |-> IF k = 0 THEN 1 ELSE 2]

C11_Witness ==
    /\ flags.setup = TRUE
    /\ lastCall.op = "setup"
    /\ n_combinations = 2
    /\ param.n_robust = 1
    /\ param.n_horizon = 3
    /\ scenario_tree.n_scenarios = [k \in 0 .. 3 |-> IF k = 0 THEN 1 ELSE 2]
    /\ DOMAIN scenario_tree.child_scenario[0][0] = {0, 1}
    /\ DOMAIN scenario_tree.child_scenario[1][1] = {0}

\* The input variable of node (k, s): shared by the scenarios of a stage under
\* open_loop.
InputOfNode(k, s) == <<"_u", k, IF param.open_loop THEN 0 ELSE s>>

\* C12: the rate penalty of every branch of a node (k, s) with k > 0 compares
\* the input of the node with the input of its parent at stage k-1, the node
\* one of whose children it is; at k = 0 it compares the input with the
\* previous-input entry of the parameter vector, which is no decision
\* variable.  The dynamics of all branches of a node use the node's input.
C12_NonAnticipativity ==
    flags.setup = TRUE =>
        LET t == scenario_tree
        IN  /\ \A br \in Branches(t, param) :
                  \E r \in nlp.obj :
                      r.kind = "rterm" /\ <<r.k, r.s, r.b>> = br
            /\ \A r \in nlp.obj : r.kind = "rterm" =>
                  IF r.k = 0
                  THEN /\ r.vars = { InputOfNode(0, r.s) }
                       /\ r.ref = <<"_u_prev">>
                       /\ r.ref \in DOMAIN opt_p_num
                       /\ r.ref \notin DOMAIN opt_x_num
                  ELSE LET parent == t.parent_scenario[r.k][r.s]
                       IN  /\ \E b \in DOMAIN t.child_scenario[r.k - 1][parent] :
                                 t.child_scenario[r.k - 1][parent][b] = r.s
                           /\ r.ref = InputOfNode(r.k - 1, parent)
                           /\ r.vars = { InputOfNode(r.k, r.s), r.ref }
                           /\ r.vars \subseteq DOMAIN opt_x_num
            /\ \A c \in nlp.cons : c.kind \in {"collocation", "continuity"} =>
                  { v \in c.vars : v[1] = "_u" } = { InputOfNode(c.k, c.s) }

C12_Witness ==
    /\ flags.setup = TRUE
    /\ param.open_loop = FALSE
    /\ n_combinations = 2
    /\ param.n_robust = 2
    /\ param.n_horizon = 3
    /\ \E r \in nlp.obj :
          /\ r.kind = "rterm" /\ r.k = 2 /\ r.s = 3
          /\ r.ref = <<"_u", 1, 1>>
    /\ \E r \in nlp.obj :
          /\ r.kind = "rterm" /\ r.k = 1 /\ r.s = 1
          /\ r.ref = <<"_u", 0, 0>>

\* C13: at every stage k the stage cost is added once for every branch
\* (k, s, b), n_combinations^min(k+1, n_robust) times in all, each time with
\* the weight 1/n_scenarios[k+1], so that the weights of a stage sum to 1.
C13_StageCostWeights ==
    flags.setup = TRUE =>
        LET t == scenario_tree
            lterms(k) == { r \in nlp.obj : r.kind = "lterm" /\ r.k = k }
        IN  /\ \A br \in Branches(t, param) :
                  Cardinality({ r \in nlp.obj : r.kind = "lterm"
                                                 /\ <<r.k, r.s, r.b>> = br }) = 1
            /\ \A r \in nlp.obj : r.kind = "lterm" => <<r.k, r.s, r.b>> \in Branches(t, param)
            /\ \A k \in 0 .. (param.n_horizon - 1) :
                  /\ Cardinality(lterms(k)) =
                        Pow(n_combinations, Min(k + 1, param.n_robust))
                  /\ \A r \in lterms(k) : r.den = t.n_scenarios[k + 1]
                  /\ \A r \in lterms(k) : Cardinality(lterms(k)) = r.den

C13_Witness ==
    /\ flags.setup = TRUE
    /\ n_combinations = 3
    /\ param.n_robust = 2
    /\ param.n_horizon = 2
    /\ Cardinality({ r \in nlp.obj : r.kind = "lterm" /\ r.k = 1 /\ r.den = 9 }) = 9
    /\ Cardinality({ r \in nlp.obj : r.kind = "lterm" /\ r.k = 0 /\ r.den = 3 }) = 3

\* C14: the terminal cost is added for the branches of the last interval
\* only, and every node (n_horizon, c) with c < n_scenarios[n_horizon] has its
\* terminal cost, evaluated at the node's own state, added exactly once with
\* the weight 1/n_scenarios[n_horizon].
C14_TerminalCost ==
    flags.setup = TRUE =>
        LET t == scenario_tree
            N == param.n_horizon
            mterms == { r \in nlp.obj : r.kind = "mterm" }
        IN  /\ \A r \in mterms :
                  /\ r.k = N - 1
                  /\ r.den = t.n_scenarios[N]
                  /\ r.vars = { <<"_x", N, t.child_scenario[r.k][r.s][r.b],
                                  XLast(model, param)>> }
            /\ \A c \in 0 .. (t.n_scenarios[N] - 1) :
                  Cardinality({ r \in mterms :
                                  r.vars = { <<"_x", N, c, XLast(model, param)>> } }) = 1

\* C15 as stated: every entry of the decision vector that a term of the
\* objective or a constraint is built from has a scenario index below the
\* number of scenarios of the stage it is indexed with.
C15_StageLiveOnly ==
    flags.setup = TRUE =>
        \A e \in nlp.obj \cup nlp.cons : \A v \in e.vars :
            v[3] < scenario_tree.n_scenarios[v[2]]

\* Whether the entry v of the decision vector belongs to the tree: a state or
\* an input of a node of its stage, the algebraic variables of a branch that
\* ends in a node of the next stage, the slack of a node of a stage that
\* shares the slack.
LiveSlot(v) ==
    LET t == scenario_tree
    IN  CASE v[1] \in {"_x", "_u"} -> v[3] < t.n_scenarios[v[2]]
          [] v[1] = "_z" -> v[3] < t.n_scenarios[v[2] + 1]
          [] v[1] = "_eps" ->
                 \E k \in 0 .. (param.n_horizon - 1) :
                     /\ Min(k, n_eps(param) - 1) = v[2]
                     /\ v[3] < t.n_scenarios[k]

\* C15, amended: every entry of the decision vector that a term of the
\* objective or a constraint is built from is an entry of the layout and
\* belongs to the tree: states and inputs have a scenario index below
\* n_scenarios[k] of their stage k, algebraic variables of interval k are
\* indexed with the child and have an index below n_scenarios[k+1], and a
\* slack is that of a node of one of the stages that share it.
C15_PaddedUnused ==
    flags.setup = TRUE =>
        \A e \in nlp.obj \cup nlp.cons : \A v \in e.vars :
            /\ v \in DOMAIN opt_x_num
            /\ LiveSlot(v)

C15_Witness ==
    /\ flags.setup = TRUE
    /\ n_combinations = 2
    /\ param.n_robust = 1
    /\ param.n_horizon = 3
    /\ param.nl_cons_single_slack
    /\ nl_cons.soft
    /\ <<"_x", 0, 1, 0>> \in DOMAIN opt_x_num
    /\ \E c \in nlp.cons : c.kind = "collocation" /\ <<"_z", 0, 1, 0>> \in c.vars
    /\ \E c \in nlp.cons : c.kind = "nl_cons" /\ <<"_eps", 0, 1>> \in c.vars
    /\ \A e \in nlp.obj \cup nlp.cons : <<"_x", 0, 1, 0>> \notin e.vars

\* C16: the constraints hold exactly one initial condition, on the last
\* collocation point of the state of stage 0, scenario 0, against the x0
\* entry of the parameter vector; for every branch (k, s, b) exactly one
\* block of collocation equations and one continuity equality; all of these
\* with lower bound = upper bound = 0.  Stage k contributes n_scenarios[k+1]
\* continuity equalities, n_horizon in all when n_robust = 0, and without
\* nonlinear constraints no row of the constraints is an inequality.
C16_Equalities ==
    flags.setup = TRUE =>
        LET t == scenario_tree
            N == param.n_horizon
            of(kind) == { c \in nlp.cons : c.kind = kind }
            last == CHOOSE j \in 0 .. 9 :
                       /\ <<"_x", 0, 0, j>> \in DOMAIN opt_x_num
                       /\ <<"_x", 0, 0, j + 1>> \notin DOMAIN opt_x_num
        IN  /\ Cardinality(of("initial")) = 1
            /\ \A c \in of("initial") :
                  /\ c.vars = { <<"_x", 0, 0, last>> }
                  /\ c.pars = { <<"_x0">> }
                  /\ c.rows = model.n_x
            /\ \A br \in Branches(t, param) :
                  /\ Cardinality({ c \in of("collocation") : <<c.k, c.s, c.b>> = br }) = 1
                  /\ Cardinality({ c \in of("continuity") : <<c.k, c.s, c.b>> = br }) = 1
            /\ \A c \in of("collocation") \cup of("continuity") :
                  <<c.k, c.s, c.b>> \in Branches(t, param)
            /\ \A c \in of("initial") \cup of("collocation") \cup of("continuity") :
                  c.lb = 0 /\ c.ub = 0
            /\ \A k \in 0 .. (N - 1) :
                  Cardinality({ c \in of("continuity") : c.k = k }) =
                      Pow(n_combinations, Min(k + 1, param.n_robust))
            /\ param.n_robust = 0 => Cardinality(of("continuity")) = N
            /\ nl_cons.n = 0 =>
                  \A c \in nlp.cons : (c.lb # 0 \/ c.ub # 0) => c.rows = 0

C16_Witness ==
    /\ flags.setup = TRUE
    /\ model.model_type = "continuous"
    /\ param.n_robust = 0
    /\ param.n_horizon = 3
    /\ nl_cons.n = 0
    /\ Cardinality({ c \in nlp.cons : c.kind = "continuity" /\ c.lb = 0 /\ c.ub = 0 }) = 3
    /\ Cardinality({ c \in nlp.cons : c.kind = "initial" /\ c.lb = 0 /\ c.ub = 0 }) = 1
    /\ \A c \in nlp.cons : c.kind = "nl_cons" => c.rows = 0

\* The entries of a bound array at the last collocation point of the states
\* of stage n_horizon.
TerminalEntries(vec) ==
    { i \in DOMAIN vec :
        /\ i[1] = "_x"
        /\ i[2] = param.n_horizon
        /\ \A j \in DOMAIN vec : (j[1] = "_x" /\ j[2] = i[2] /\ j[3] = i[3]) => j[4] <= i[4] }

\* C17: after every successful setup every entry of the lower-bound array is
\* at most the entry of the upper-bound array, the entries that hold the
\* terminal bounds included.
C17_BoundsOrdered ==
    flags.setup = TRUE =>
        \A i \in DOMAIN lb_opt_x : lb_opt_x[i] <= ub_opt_x[i]

\* C18: with use_terminal_bounds, setup puts at the last collocation point of
\* the states of stage n_horizon, in every scenario, the path bound of the
\* states where the user assigned no terminal bound and the terminal bound
\* the user assigned where they assigned one.
C18_TerminalBoundsApplied ==
    [][ (Returned("setup") /\ param.use_terminal_bounds) =>
            /\ TerminalEntries(lb_opt_x') # {}
            /\ \A i \in TerminalEntries(lb_opt_x') :
                  /\ lb_opt_x'[i] = IF terminal_assigned.lb = Unset THEN bnd["_x"].lb
                                    ELSE terminal_assigned.lb
                  /\ ub_opt_x'[i] = IF terminal_assigned.ub = Unset THEN bnd["_x"].ub
                                    ELSE terminal_assigned.ub ]_vars

\* C19: without use_terminal_bounds, setup leaves the last collocation point
\* of the states of stage n_horizon unbounded, whatever was assigned through
\* terminal_bounds.
C19_TerminalBoundsDisabled ==
    [][ (Returned("setup") /\ ~param.use_terminal_bounds) =>
            /\ TerminalEntries(lb_opt_x') # {}
            /\ \A i \in TerminalEntries(lb_opt_x') :
                  /\ lb_opt_x'[i] = 0 - Inf
                  /\ ub_opt_x'[i] = Inf ]_vars

\* C20: after setup every state entry of stage 0, in every scenario slot and
\* at every collocation point, has the lower bound -inf and the upper bound
\* +inf, for both values of cons_check_colloc_points, every horizon and every
\* tree; the state of the root is the subject of the initial condition.
C20_RootUnbounded ==
    flags.setup = TRUE =>
        /\ \A i \in DOMAIN lb_opt_x : (i[1] = "_x" /\ i[2] = 0) =>
              /\ lb_opt_x[i] = 0 - Inf
              /\ ub_opt_x[i] = Inf
        /\ \E c \in nlp.cons :
              /\ c.kind = "initial"
              /\ c.vars \subseteq { i \in DOMAIN lb_opt_x : i[1] = "_x" /\ i[2] = 0 }
              /\ c.vars # {}

C20_Witness ==
    /\ flags.setup = TRUE
    /\ model.model_type = "continuous"
    /\ param.cons_check_colloc_points
    /\ param.n_horizon = 3
    /\ param.n_robust = 1
    /\ n_combinations = 2
    /\ lb_opt_x[<<"_x", 0, 0, 2>>] = 0 - Inf
    /\ ub_opt_x[<<"_x", 0, 1, 0>>] = Inf
    /\ lb_opt_x[<<"_x", 1, 0, 0>>] = 1
    /\ ub_opt_x[<<"_x", 1, 1, 2>>] = 5
    /\ lb_opt_x[<<"_u", 0, 0>>] = 1

\* C21: _update_bounds run again under an unchanged configuration, after the
\* run of a successful setup or after a run of its own, leaves both bound
\* arrays exactly as that run left them.
C21_Idempotent ==
    [][ (Returned("_update_bounds") /\ lastCall.status = "ok"
         /\ lastCall.op \in {"setup", "_update_bounds"}) =>
            /\ lb_opt_x' = lb_opt_x
            /\ ub_opt_x' = ub_opt_x ]_vars

C21_Witness ==
    /\ lastCall.op = "_update_bounds"
    /\ lastCall.status = "ok"
    /\ model.model_type = "continuous"
    /\ param.cons_check_colloc_points
    /\ terminal.ub_alias /\ ~terminal.lb_alias
    /\ lb_opt_x[<<"_x", 1, 0, 0>>] = 1
    /\ ub_opt_x[<<"_x", 1, 1, 2>>] = 2
    /\ lb_opt_x[<<"_x", 2, 0, 2>>] = 3
    /\ ub_opt_x[<<"_x", 2, 0, 2>>] = 2
    /\ ub_opt_x[<<"_x", 2, 0, 1>>] = Inf

\* C22: with n_robust = 0, for every n_combinations, the decision vector has
\* one scenario slot per stage, every stage has one scenario with one branch,
\* and every term and constraint is built with the uncertain parameters of
\* combination 0; the objective then has one stage cost, one slack penalty
\* and one rate penalty per interval and one terminal cost, and the
\* constraints are the initial condition and, per interval, one block of
\* collocation equations, one continuity equality and the nonlinear
\* constraints of one node: the counts of a single-scenario problem.
C22_NominalCollapse ==
    (flags.setup = TRUE /\ param.n_robust = 0) =>
        LET t == scenario_tree
            N == param.n_horizon
            count(set, kind) == Cardinality({ e \in set : e.kind = kind })
            nl_per_node == IF param.nl_cons_check_colloc_points
                           THEN (IF model.model_type = "discrete" THEN 0
                                 ELSE param.collocation_deg * param.collocation_ni)
                           ELSE 1
        IN  /\ \A i \in DOMAIN opt_x_num : i[3] = 0
            /\ \A k \in 0 .. N : t.n_scenarios[k] = 1
            /\ \A k \in 0 .. (N - 1) : t.n_branches[k] = 1
            /\ \A e \in nlp.obj \cup nlp.cons :
                  /\ e.s = 0 /\ e.b = 0
                  /\ \A p \in e.pars : p[1] = "_p" => p[2] = 0
            /\ \A k \in 0 .. (N - 1) :
                  \E e \in nlp.cons : e.kind = "collocation" /\ e.k = k
                                      /\ <<"_p", 0>> \in e.pars
            /\ count(nlp.obj, "lterm") = N
            /\ count(nlp.obj, "epsterm") = N
            /\ count(nlp.obj, "rterm") = N
            /\ count(nlp.obj, "mterm") = 1
            /\ Cardinality(nlp.obj) = 3 * N + 1
            /\ count(nlp.cons, "initial") = 1
            /\ count(nlp.cons, "collocation") = N
            /\ count(nlp.cons, "continuity") = N
            /\ count(nlp.cons, "nl_cons") = N * nl_per_node
            /\ Cardinality(nlp.cons) = 1 + 2 * N + N * nl_per_node

C22_Witness ==
    /\ flags.setup = TRUE
    /\ param.n_robust = 0
    /\ param.n_horizon = 3
    /\ n_combinations = 3
    /\ <<"_p", 2>> \in DOMAIN opt_p_num
    /\ \A i \in DOMAIN opt_x_num : i[3] = 0
    /\ Cardinality(nlp.obj) = 10
    /\ Cardinality({ e \in nlp.cons : e.kind = "continuity" }) = 3
    /\ \A e \in nlp.obj \cup nlp.cons : <<"_p", 2>> \notin e.pars

\* C23: an assignment terminal_bounds[bound type, name] = v succeeds, a query
\* terminal_bounds[bound type, name] succeeds, changes nothing and returns the
\* value last assigned to that bound type, and an assignment to one bound
\* type leaves the value assigned to the other.
C23_SetQuery ==
    [][ /\ (Called("terminal_bounds") /\ Len(lastCall'.args) = 2
            /\ lastCall'.args[2] \in StateNames) =>
              lastCall'.status = "ok"
        /\ Returned("terminal_bounds") =>
              \/ terminal_assigned'.lb = terminal_assigned.lb
              \/ terminal_assigned'.ub = terminal_assigned.ub
        /\ (Called("terminal_bounds (getter)") /\ Len(lastCall'.args) = 2
            /\ lastCall'.args[2] \in StateNames) =>
              /\ lastCall'.status = "ok"
              /\ UNCHANGED state
              /\ lastCall'.args[1] = "lower" /\ terminal_assigned.lb # Unset =>
                    lastCall'.ret = terminal_assigned.lb
              /\ lastCall'.args[1] = "upper" /\ terminal_assigned.ub # Unset =>
                    lastCall'.ret = terminal_assigned.ub ]_vars

\* The nonlinear constraints the assembly of the controller emits when
\* nl_cons_check_colloc_points has the value f, and the state entries they
\* constrain.
NlConsWith(f) ==
    { c \in AssembleNlp(model, [param EXCEPT !.nl_cons_check_colloc_points = f],
                        scenario_tree, nl_cons).cons : c.kind = "nl_cons" }

NlPointsWith(f) == { v \in UNION { c.vars : c \in NlConsWith(f) } : v[1] = "_x" }

\* C24: with nonlinear constraints defined, the constraints of the problem
\* are those of the flag's value; every state entry constrained with
\* nl_cons_check_colloc_points off is constrained with it on, what the flag
\* adds are entries of the same stage and scenario, and for a discrete-time
\* model both values give the same constraints.
C24_DensityOnly ==
    (flags.setup = TRUE /\ nl_cons.n > 0) =>
        /\ { c \in nlp.cons : c.kind = "nl_cons" } =
              NlConsWith(param.nl_cons_check_colloc_points)
        /\ NlPointsWith(FALSE) # {}
        /\ NlPointsWith(FALSE) \subseteq NlPointsWith(TRUE)
        /\ \A v \in NlPointsWith(TRUE) :
              \E w \in NlPointsWith(FALSE) : w[2] = v[2] /\ w[3] = v[3]
        /\ model.model_type = "discrete" => NlConsWith(TRUE) = NlConsWith(FALSE)

\* C25: after setup, with cons_check_colloc_points the path bounds of the
\* states are at every interior collocation point of the stages
\* 1..n_horizon, the points of the intervals 0..n_horizon-1, and at the last
\* point of the stages 1..n_horizon-1; without it they are at the last point
\* of the stages 1..n_horizon-1 and at no interior point, and the bounds of
\* the algebraic variables are at the first point of every interval only.
C25_BoundDensity ==
    flags.setup = TRUE =>
        LET N == param.n_horizon
            last == CHOOSE j \in 0 .. 9 :
                       /\ <<"_x", 0, 0, j>> \in DOMAIN lb_opt_x
                       /\ <<"_x", 0, 0, j + 1>> \notin DOMAIN lb_opt_x
            bounded(i) == /\ lb_opt_x[i] = bnd[i[1]].lb
                          /\ ub_opt_x[i] = bnd[i[1]].ub
            free(i) == lb_opt_x[i] = 0 - Inf /\ ub_opt_x[i] = Inf
        IN  \A i \in DOMAIN lb_opt_x :
                /\ (i[1] = "_x" /\ i[4] = last /\ 1 <= i[2] /\ i[2] <= N - 1) => bounded(i)
                /\ (i[1] = "_x" /\ i[4] < last /\ 1 <= i[2]) =>
                      IF param.cons_check_colloc_points THEN bounded(i) ELSE free(i)
                /\ (i[1] = "_z" /\ ~param.cons_check_colloc_points) =>
                      IF i[4] = 0 THEN bounded(i) ELSE free(i)

\* C26: a call of set_rterm that raises leaves the weights of the rate
\* penalty and every flag as they were, and a setup of a controller whose
\* rate-penalty flag is False warns that the rate penalty was not set.
C26_AllOrNothing ==
    [][ /\ Raised("set_rterm") => UNCHANGED <<rterm_factor, flags>>
        /\ (Called("setup") /\ flags.set_objective = TRUE /\ flags.set_rterm = FALSE) =>
              "rterm was not set" \in lastCall'.warn ]_vars

\* C27: when setup completes with a p_fun the user registered, n_combinations,
\* the number of '_p' entries of the parameter vector and the width the tree
\* is built for are those of the structure the p_fun returns; and
\* get_p_template called after the p_fun was registered leaves n_combinations
\* as it was.
C27_CombinationsOfPFun ==
    [][ /\ (Returned("setup") /\ p_fun.kind = "user") =>
              /\ n_combinations' = p_fun.n
              /\ Cardinality({ i \in DOMAIN opt_p_num' : i[1] = "_p" }) = p_fun.n
        /\ (Called("get_p_template") /\ p_fun.kind = "user") =>
              n_combinations' = n_combinations ]_vars

\* C28: an assignment through terminal_bounds changes no path bound, and an
\* assignment of a path bound changes no terminal bound the user assigned,
\* before and after any setup.
C28_SeparateStores ==
    [][ /\ Called("terminal_bounds") => bnd' = bnd
        /\ Called("bounds") =>
              /\ terminal_assigned.lb # Unset => x_terminal_lb' = x_terminal_lb
              /\ terminal_assigned.ub # Unset => x_terminal_ub' = x_terminal_ub ]_vars

\* C29: every setup that completes leaves the guess flag False, and a
\* make_step that directly follows a completed setup issues the warning of
\* the missing initial guess.
C29_SetupClearsGuess ==
    [][ /\ Returned("setup") => flags'.set_initial_guess = FALSE
        /\ (lastCall.op = "setup" /\ lastCall.status = "ok" /\ Returned("make_step")) =>
              "initial guess was not set" \in lastCall'.warn ]_vars

\* C30: for every branch (k, s, b) the algebraic variables that enter the
\* stage cost and the nonlinear constraints of the branch are among those of
\* the collocation equations of the same branch, the block of stage k at the
\* scenario index of the branch's child.
C30_BranchIndexing ==
    flags.setup = TRUE =>
        \A e \in { r \in nlp.obj : r.kind = "lterm" }
                 \cup { c \in nlp.cons : c.kind = "nl_cons" } :
            \E d \in nlp.cons :
                /\ d.kind = "collocation"
                /\ <<d.k, d.s, d.b>> = <<e.k, e.s, e.b>>
                /\ \A v \in d.vars :
                      v[1] = "_z" => v[3] = scenario_tree.child_scenario[e.k][e.s][e.b]
                /\ { v \in e.vars : v[1] = "_z" } \subseteq d.vars

====
